---- MODULE Spec2Model ----
(***************************************************************************)
(* Timeglass Foods: recipe scanning and registry sync                      *)
(* (tfoods_dump_recipe_json.py).                                           *)
(*                                                                         *)
(* Strings that the program inspects character by character or sorts are   *)
(* sequences of one-character strings, ordered by code point.  JSON values *)
(* are tagged records [t, v]; a JSON object keeps its pairs in insertion    *)
(* order, as a Python dict does.                                           *)
(***************************************************************************)
EXTENDS Integers, Sequences, FiniteSets, TLC

VARIABLES
    stream,      \* build_direct_map: indices (into DocPool) of the recipes consumed so far
    direct_map,  \* build_direct_map: the accumulator dict, output -> set of tokens
    bpc,         \* build_direct_map: "loop" or "returned"
    built,       \* build_direct_map: the returned (finalized) dict
    fs,          \* the filesystem: [dirs: the directories, files: path -> file]
    start,       \* the filesystem as it was when the current run of main started
    pc,          \* main: where the run is
    rc,          \* main: the exit status returned
    args,        \* main: the parsed command line
    world,       \* main: [docs: the recipe documents under --inputs, edibles: the file
                 \*        at --edibles, found: whether every --inputs path exists]
    main_direct_map,  \* main: its local direct_map
    edible_items,     \* main: its local edible_items
    repeat,      \* the current run repeats the run before it: that run completed
                 \* without --dry-run on the same documents, edibles and options
    wj_names,    \* write_json: the directory entries, name -> inode number (0: no entry)
    wj_inode,    \* write_json: inode number -> the chunks of text the file holds
    wj_proc,     \* write_json: per writing process, [pc, fd, pos]
    fn,          \* a call of one function on its own: the name of the function
    arg,         \* that call: the argument
    ret,         \* that call: the value returned
    returned     \* that call: whether it has returned

buildVars == <<stream, direct_map, bpc, built>>

mainVars == <<fs, start, pc, rc, args, world, main_direct_map, edible_items, repeat>>

writeVars == <<wj_names, wj_inode, wj_proc>>

callVars == <<fn, arg, ret, returned>>

vars == <<stream, direct_map, bpc, built, fs, start, pc, rc, args, world,
          main_direct_map, edible_items, repeat, wj_names, wj_inode, wj_proc,
          fn, arg, ret, returned>>

\* the processes that call write_json on one target path at the same time
NumWriters == 2

Writers == 1..NumWriters

\* the pieces in which the text of a document reaches the file, the last one the "\n"
Chunks == 3

Inodes == 1..(NumWriters + 1)

\* the text process w writes (w = 0: the text the target held before), piece by piece
Text(w) == [i \in 1..Chunks |-> [by |-> w, part |-> i]]

WriteIdle ==
    /\ wj_names = [target |-> 1, tmp |-> 0]
    /\ wj_inode = [n \in Inodes |-> IF n = 1 THEN Text(0) ELSE <<>>]
    /\ wj_proc = [w \in Writers |-> [pc |-> "start", fd |-> 0, pos |-> 0]]

\* no function is called on its own
CallIdle == fn = "none" /\ arg = <<>> /\ ret = <<>> /\ returned = FALSE

----------------------------------------------------------------------------
(* Strings *)

\* the characters the model uses, in code point order
Alphabet ==
    <<" ", "#", ".", "/", ":", "\\", "_", "a", "b", "c", "d", "e", "f", "g", "h", "i", "j",
      "k", "l", "m", "n", "o", "p", "q", "r", "s", "t", "u", "v", "w", "x", "y", "z">>

Ord(c) == CHOOSE i \in 1..Len(Alphabet) : Alphabet[i] = c

Min(a, b) == IF a <= b THEN a ELSE b

\* Python's < on str: lexicographic by code point, a proper prefix is smaller
StrLess(a, b) ==
    \E i \in 1..(Min(Len(a), Len(b)) + 1) :
        /\ \A j \in 1..(i - 1) : a[j] = b[j]
        /\ \/ i = Len(a) + 1 /\ i <= Len(b)
           \/ i <= Len(a) /\ i <= Len(b) /\ Ord(a[i]) < Ord(b[i])

StartsWith(s, p) == Len(s) >= Len(p) /\ SubSeq(s, 1, Len(p)) = p

Contains(s, c) == \E i \in 1..Len(s) : s[i] = c

Whitespace == {" "}

RECURSIVE lstrip(_)
lstrip(s) == IF s # <<>> /\ Head(s) \in Whitespace THEN lstrip(Tail(s)) ELSE s

RECURSIVE rstrip(_)
rstrip(s) ==
    IF s # <<>> /\ s[Len(s)] \in Whitespace THEN rstrip(SubSeq(s, 1, Len(s) - 1)) ELSE s

\* str.strip()
strip(s) == rstrip(lstrip(s))

\* sorted(<set of str>)
RECURSIVE sorted(_)
sorted(S) ==
    IF S = {} THEN <<>>
    ELSE LET m == CHOOSE x \in S : \A y \in S \ {x} : StrLess(x, y)
         IN  <<m>> \o sorted(S \ {m})

Range(f) == {f[i] : i \in DOMAIN f}

\* the orders in which a set can be iterated
Perms(S) == {p \in [1..Cardinality(S) -> S] : Range(p) = S}

IsSortedSeq(q) == \A i \in 1..(Len(q) - 1) : StrLess(q[i], q[i + 1])

NoDuplicates(q) == \A i, j \in 1..Len(q) : i # j => q[i] # q[j]

----------------------------------------------------------------------------
(* JSON values *)

Null == [t |-> "null", v |-> <<>>]
Str(s) == [t |-> "str", v |-> s]
Num(n) == [t |-> "num", v |-> n]
Lst(l) == [t |-> "list", v |-> l]
Obj(pairs) == [t |-> "dict", v |-> pairs]
KV(key, val) == [k |-> key, v |-> val]

\* `key in obj`
Has(obj, key) == \E i \in 1..Len(obj.v) : obj.v[i].k = key

\* obj.get(key): None when the key is absent
Get(obj, key) ==
    IF Has(obj, key)
    THEN obj.v[CHOOSE i \in 1..Len(obj.v) : obj.v[i].k = key].v
    ELSE Null

\* Python truthiness of a JSON value
Truthy(j) ==
    CASE j.t = "null" -> FALSE
      [] j.t = "num" -> j.v # 0
      [] OTHER -> j.v # <<>>

----------------------------------------------------------------------------
(* Output extraction *)

is_item_id(j) == j.t = "str" /\ Contains(j.v, ":") /\ ~StartsWith(j.v, <<"#">>)

LooksLikeResult(x) ==
    x.t = "dict" /\ (Has(x, "item") \/ Has(x, "id") \/ Has(x, "name"))

RECURSIVE from_result_obj(_)
from_result_obj(obj) ==
    IF obj.t = "null" THEN {}
    ELSE IF is_item_id(obj) THEN {obj.v}
    ELSE IF obj.t = "list" THEN UNION {from_result_obj(obj.v[i]) : i \in 1..Len(obj.v)}
    ELSE IF obj.t # "dict" THEN {}
    ELSE LET named(key) == IF is_item_id(Get(obj, key)) THEN {Get(obj, key).v} ELSE {}
             nested(val) ==
                 IF LooksLikeResult(val) THEN from_result_obj(val)
                 ELSE IF val.t = "list" /\ \E i \in 1..Len(val.v) : LooksLikeResult(val.v[i])
                      THEN from_result_obj(val)
                      ELSE {}
         IN  named("item") \cup named("id") \cup named("name")
             \cup UNION {nested(obj.v[i].v) : i \in 1..Len(obj.v)}

extract_outputs_all_fields(recipe) ==
    IF recipe.t # "dict" THEN {}
    ELSE LET field(key) == IF Has(recipe, key) THEN from_result_obj(Get(recipe, key)) ELSE {}
         IN  field("result") \cup field("results") \cup field("output") \cup field("outputs")

extract_outputs(recipe) ==
    IF recipe.t # "dict" THEN {}
    ELSE LET field(key) == IF Has(recipe, key) THEN from_result_obj(Get(recipe, key)) ELSE {}
             primary == field("result") \cup field("results")
         IN  IF primary # {} THEN primary ELSE field("output") \cup field("outputs")

----------------------------------------------------------------------------
(* Ingredient extraction *)

is_tag_id(j) == j.t = "str" /\ Contains(j.v, ":") /\ ~StartsWith(j.v, <<"#">>)

\* "#forge:dough" -> "forge:dough"; <<>> stands for None
tag_from_hash(s) ==
    IF StartsWith(s, <<"#">>) /\ Contains(Tail(s), ":") THEN Tail(s) ELSE <<>>

token_from_item_id(item_id) == <<"i", "t", "e", "m", ":">> \o item_id
token_from_tag_id(tag_id) == <<"t", "a", "g", ":">> \o tag_id
token_from_fluid_id(fluid_id) == <<"f", "l", "u", "i", "d", ":">> \o fluid_id

RECURSIVE collect_from_ingredient_obj(_)
RECURSIVE collect_from_ingredient_list(_)

\* the tokens collect_from_ingredient_obj appends to `out`, in order
collect_from_ingredient_obj(obj) ==
    IF obj.t = "null" THEN <<>>
    ELSE IF obj.t = "str" THEN
        IF tag_from_hash(obj.v) # <<>> THEN <<token_from_tag_id(tag_from_hash(obj.v))>>
        ELSE IF is_item_id(obj) THEN <<token_from_item_id(obj.v)>>
        ELSE <<>>
    ELSE IF obj.t = "list" THEN collect_from_ingredient_list(obj.v)
    ELSE IF obj.t # "dict" THEN <<>>
    ELSE LET itemRef(key) ==
                 IF is_item_id(Get(obj, key)) THEN <<token_from_item_id(Get(obj, key).v)>>
                 ELSE <<>>
             tagRef ==
                 IF is_tag_id(Get(obj, "tag")) THEN <<token_from_tag_id(Get(obj, "tag").v)>>
                 ELSE <<>>
             items ==
                 IF Get(obj, "items").t = "list"
                 THEN collect_from_ingredient_list(Get(obj, "items").v)
                 ELSE <<>>
         IN  itemRef("item") \o tagRef \o itemRef("id") \o itemRef("name") \o items

collect_from_ingredient_list(l) ==
    IF l = <<>> THEN <<>>
    ELSE collect_from_ingredient_obj(Head(l)) \o collect_from_ingredient_list(Tail(l))

RECURSIVE FluidIds(_)
\* the fluid tokens of the item-id-shaped strings of a list, in order
FluidIds(l) ==
    IF l = <<>> THEN <<>>
    ELSE (IF is_item_id(Head(l)) THEN <<token_from_fluid_id(Head(l).v)>> ELSE <<>>)
         \o FluidIds(Tail(l))

RECURSIVE collect_from_fluid_obj(_)
RECURSIVE collect_from_fluid_list(_)

\* the tokens collect_from_fluid_obj appends to `out`, in order
collect_from_fluid_obj(obj) ==
    IF obj.t = "null" THEN <<>>
    ELSE IF obj.t = "str" THEN
        IF is_item_id(obj) THEN <<token_from_fluid_id(obj.v)>> ELSE <<>>
    ELSE IF obj.t = "list" THEN collect_from_fluid_list(obj.v)
    ELSE IF obj.t # "dict" THEN <<>>
    ELSE LET fluid ==
                 IF is_item_id(Get(obj, "fluid"))
                 THEN <<token_from_fluid_id(Get(obj, "fluid").v)>>
                 ELSE <<>>
             fluids ==
                 IF Get(obj, "fluids").t = "list" THEN FluidIds(Get(obj, "fluids").v)
                 ELSE <<>>
             ft == IF Truthy(Get(obj, "fluidTag")) THEN Get(obj, "fluidTag")
                   ELSE Get(obj, "tag")
             fluidTag == IF is_tag_id(ft) THEN <<token_from_tag_id(ft.v)>> ELSE <<>>
         IN  fluid \o fluids \o fluidTag

collect_from_fluid_list(l) ==
    IF l = <<>> THEN <<>>
    ELSE collect_from_fluid_obj(Head(l)) \o collect_from_fluid_list(Tail(l))

RECURSIVE collect_inputs(_)
\* the loop over recipe["inputs"]: both collectors on each element
collect_inputs(l) ==
    IF l = <<>> THEN <<>>
    ELSE collect_from_ingredient_obj(Head(l)) \o collect_from_fluid_obj(Head(l))
         \o collect_inputs(Tail(l))

RECURSIVE DictValues(_)
\* dict.values(), in insertion order
DictValues(pairs) ==
    IF pairs = <<>> THEN <<>> ELSE <<Head(pairs).v>> \o DictValues(Tail(pairs))

extract_direct_ingredient_tokens(recipe) ==
    IF recipe.t # "dict" THEN <<>>
    ELSE LET shaped ==
                 IF Has(recipe, "pattern") /\ Get(recipe, "key").t = "dict"
                 THEN collect_from_ingredient_list(DictValues(Get(recipe, "key").v))
                 ELSE <<>>
             shapeless ==
                 IF Get(recipe, "ingredients").t = "list"
                 THEN collect_from_ingredient_list(Get(recipe, "ingredients").v)
                 ELSE <<>>
             single ==
                 IF Has(recipe, "ingredient")
                 THEN collect_from_ingredient_obj(Get(recipe, "ingredient"))
                 ELSE <<>>
             input ==
                 IF Has(recipe, "input")
                 THEN collect_from_ingredient_obj(Get(recipe, "input"))
                      \o collect_from_fluid_obj(Get(recipe, "input"))
                 ELSE <<>>
             inputs ==
                 IF Get(recipe, "inputs").t = "list"
                 THEN collect_inputs(Get(recipe, "inputs").v)
                 ELSE <<>>
             fluidField(key) ==
                 IF Has(recipe, key) THEN collect_from_fluid_obj(Get(recipe, key)) ELSE <<>>
         IN  shaped \o shapeless \o single \o input \o inputs
             \o fluidField("fluid") \o fluidField("fluids")
             \o fluidField("fluidIngredient") \o fluidField("fluid_ingredient")

----------------------------------------------------------------------------
(* Token canonicalization *)

canonicalize_without_strip(token) ==
    IF \/ StartsWith(token, <<"i", "t", "e", "m", ":">>)
       \/ StartsWith(token, <<"t", "a", "g", ":">>)
       \/ StartsWith(token, <<"f", "l", "u", "i", "d", ":">>)
    THEN token
    ELSE IF Contains(token, ":") /\ ~StartsWith(token, <<"#">>)
    THEN <<"i", "t", "e", "m", ":">> \o token
    ELSE IF StartsWith(token, <<"#">>) /\ Contains(Tail(token), ":")
    THEN <<"t", "a", "g", ":">> \o Tail(token)
    ELSE token

canonicalize_token(token) ==
    LET t == strip(token)
    IN  IF \/ StartsWith(t, <<"i", "t", "e", "m", ":">>)
           \/ StartsWith(t, <<"t", "a", "g", ":">>)
           \/ StartsWith(t, <<"f", "l", "u", "i", "d", ":">>)
        THEN t
        ELSE IF Contains(t, ":") /\ ~StartsWith(t, <<"#">>)
        THEN <<"i", "t", "e", "m", ":">> \o t
        ELSE IF StartsWith(t, <<"#">>) /\ Contains(Tail(t), ":")
        THEN <<"t", "a", "g", ":">> \o Tail(t)
        ELSE t

RECURSIVE CanonicalizeAll(_)
\* [canonicalize_token(t) for t in tokens]
CanonicalizeAll(tokens) ==
    IF tokens = <<>> THEN <<>>
    ELSE <<canonicalize_token(Head(tokens))>> \o CanonicalizeAll(Tail(tokens))

----------------------------------------------------------------------------
(* Direct map construction *)

\* A dict of the program is a sequence of pairs [k, v] in insertion order.
HasKey(dm, key) == \E i \in 1..Len(dm) : dm[i].k = key

Keys(dm) == {dm[i].k : i \in 1..Len(dm)}

Lookup(dm, key) == dm[CHOOSE i \in 1..Len(dm) : dm[i].k = key].v

\* dict equality: same keys, same value per key, whatever the insertion order
DictEq(a, b) == Keys(a) = Keys(b) /\ \A key \in Keys(a) : Lookup(a, key) = Lookup(b, key)

set_replace(s, tokens) == Range(tokens)

\* set.update(tokens)
set_update(s, tokens) == s \cup Range(tokens)

\* direct_map[out] = set() when the key is new
setdefault_empty(dm, out) == IF HasKey(dm, out) THEN dm ELSE Append(dm, KV(out, {}))

RECURSIVE MergeLoop(_, _, _)
\* `for out in outputs`, outputs iterated in the order `outs`
MergeLoop(dm, outs, tokens) ==
    IF outs = <<>> THEN dm
    ELSE LET out == Head(outs)
             dm1 == setdefault_empty(dm, out)
             dm2 == [i \in 1..Len(dm1) |->
                        IF dm1[i].k = out THEN KV(out, set_update(dm1[i].v, tokens))
                        ELSE dm1[i]]
         IN  MergeLoop(dm2, Tail(outs), tokens)

merge_first_output_only(dm, outs, tokens) ==
    IF outs = <<>> \/ tokens = <<>> THEN dm ELSE MergeLoop(dm, <<Head(outs)>>, tokens)

merge_direct_map(dm, outs, tokens) ==
    IF outs = <<>> \/ tokens = <<>> THEN dm ELSE MergeLoop(dm, outs, tokens)

Reverse(q) == [i \in 1..Len(q) |-> q[Len(q) + 1 - i]]

finalize_unsorted(dm) == [i \in 1..Len(dm) |-> KV(dm[i].k, Reverse(sorted(dm[i].v)))]

finalize_direct_map(dm) == [i \in 1..Len(dm) |-> KV(dm[i].k, sorted(dm[i].v))]

\* "a:b", "c:d", "a:w", "a:x", "m:d", "m:t"
a_b == <<"a", ":", "b">>
c_d == <<"c", ":", "d">>
a_w == <<"a", ":", "w">>
a_x == <<"a", ":", "x">>
m_d == <<"m", ":", "d">>
m_t == <<"m", ":", "t">>

\* The recipe documents the model streams.
DocPool == <<
    \* 1  {"result": "a:b", "ingredients": ["a:w", "#m:d"]}
    Obj(<<KV("result", Str(a_b)),
          KV("ingredients", Lst(<<Str(a_w), Str(<<"#">> \o m_d)>>))>>),
    \* 2  {"result": {"item": "a:b", "count": 1}, "ingredient": {"item": "a:x"}}
    Obj(<<KV("result", Obj(<<KV("item", Str(a_b)), KV("count", Num(1))>>)),
          KV("ingredient", Obj(<<KV("item", Str(a_x))>>))>>),
    \* 3  {"pattern": ["xy"], "key": {"x": {"tag": "m:d"}, "y": [{"item": "a:w"}, "a:x"]},
    \*     "results": [{"item": "a:b"}, {"id": "c:d"}]}
    Obj(<<KV("pattern", Lst(<<Str(<<"x", "y">>)>>)),
          KV("key", Obj(<<KV("x", Obj(<<KV("tag", Str(m_d))>>)),
                          KV("y", Lst(<<Obj(<<KV("item", Str(a_w))>>), Str(a_x)>>))>>)),
          KV("results", Lst(<<Obj(<<KV("item", Str(a_b))>>), Obj(<<KV("id", Str(c_d))>>)>>))>>),
    \* 4  {"output": "c:d", "input": "a:w"}
    Obj(<<KV("output", Str(c_d)), KV("input", Str(a_w))>>),
    \* 5  {"result": "c:d"}
    Obj(<<KV("result", Str(c_d))>>),
    \* 6  {"ingredients": ["a:w"]}
    Obj(<<KV("ingredients", Lst(<<Str(a_w)>>))>>),
    \* 7  {"result": "#m:t", "outputs": [{"name": "a:b"}], "inputs": [{"fluid": "a:w"}],
    \*     "fluids": ["a:x"]}
    Obj(<<KV("result", Str(<<"#">> \o m_t)),
          KV("outputs", Lst(<<Obj(<<KV("name", Str(a_b))>>)>>)),
          KV("inputs", Lst(<<Obj(<<KV("fluid", Str(a_w))>>)>>)),
          KV("fluids", Lst(<<Str(a_x)>>))>>),
    \* 8  {"result": "c:d", "ingredients": ["a:w ", {"items": ["a:x"]}]}
    Obj(<<KV("result", Str(c_d)),
          KV("ingredients", Lst(<<Str(a_w \o <<" ">>), Obj(<<KV("items", Lst(<<Str(a_x)>>))>>)>>))>>)
>>

Docs == 1..Len(DocPool)

\* the longest stream build_direct_map is given
MaxDocs == 3

RECURSIVE BuildLoop(_, _)
\* The accumulators the loop of build_direct_map can end with from `dm` on the recipes
\* `docs`: a set, because the iteration order of the set `outputs` is not fixed.
BuildLoop(dm, docs) ==
    IF docs = <<>> THEN {dm}
    ELSE LET recipe == DocPool[Head(docs)]
             outputs == extract_outputs(recipe)
             tokens == extract_direct_ingredient_tokens(recipe)
         IN  IF outputs = {} THEN BuildLoop(dm, Tail(docs))
             ELSE IF tokens = <<>> THEN BuildLoop(dm, Tail(docs))
             ELSE UNION {BuildLoop(merge_direct_map(dm, outs, CanonicalizeAll(tokens)), Tail(docs))
                         : outs \in Perms(outputs)}

\* the dicts build_direct_map can return on the stream `docs`
build_direct_map(docs) == {finalize_direct_map(dm) : dm \in BuildLoop(<<>>, docs)}

----------------------------------------------------------------------------
(* JSON documents on disk *)

RECURSIVE SortByKey(_)
\* the pairs of a dict in the order of their keys
SortByKey(obj) ==
    IF obj = <<>> THEN <<>>
    ELSE LET i == CHOOSE n \in 1..Len(obj) :
                      \A o \in 1..Len(obj) : o # n => StrLess(obj[n].k, obj[o].k)
         IN  <<obj[i]>> \o SortByKey([n \in 1..(Len(obj) - 1) |->
                                         IF n < i THEN obj[n] ELSE obj[n + 1]])

dumps_unsorted(obj) == obj

\* json.dump(obj, indent=2, sort_keys=True): the text, pair by pair
dumps(obj) == SortByKey(obj)

Absent == [exists |-> FALSE, data |-> <<>>]

FileOf(text) == [exists |-> TRUE, data |-> text]

\* "food_count", "food_outputs"
K_food_count == <<"f", "o", "o", "d", "_", "c", "o", "u", "n", "t">>
K_food_outputs == <<"f", "o", "o", "d", "_", "o", "u", "t", "p", "u", "t", "s">>

\* "direct_map_output_count", "edible_item_count", "edible_output_count"
K_direct_map_output_count ==
    <<"d", "i", "r", "e", "c", "t", "_", "m", "a", "p", "_",
      "o", "u", "t", "p", "u", "t", "_", "c", "o", "u", "n", "t">>
K_edible_item_count ==
    <<"e", "d", "i", "b", "l", "e", "_", "i", "t", "e", "m", "_", "c", "o", "u", "n", "t">>
K_edible_output_count ==
    <<"e", "d", "i", "b", "l", "e", "_", "o", "u", "t", "p", "u", "t", "_",
      "c", "o", "u", "n", "t">>

\* the fields of a registry node: "assigned_buffs", "id", "status"
K_assigned_buffs ==
    <<"a", "s", "s", "i", "g", "n", "e", "d", "_", "b", "u", "f", "f", "s">>
K_id == <<"i", "d">>
K_status == <<"s", "t", "a", "t", "u", "s">>

\* "regen", "active", "disabled"
regen == <<"r", "e", "g", "e", "n">>
active == <<"a", "c", "t", "i", "v", "e">>
disabled == <<"d", "i", "s", "a", "b", "l", "e", "d">>

\* "a:o": an item no recipe of DocPool produces or uses
a_o == <<"a", ":", "o">>

----------------------------------------------------------------------------
(* The filesystem *)

FOODS == "registry/generated/foods.json"
STATS == "registry/generated/stats.json"
DMOUT == "out/direct_map.json"
NoPath == "none"

NodeIds == {a_b, c_d, a_o}

\* minecraft:bread -> nodes/minecraft__bread.json
NodeFile(item_id) ==
    CASE item_id = a_b -> "registry/nodes/a__b.json"
      [] item_id = c_d -> "registry/nodes/c__d.json"
      [] item_id = a_o -> "registry/nodes/a__o.json"

NodePaths == {NodeFile(id) : id \in NodeIds}

Paths == {FOODS, STATS, DMOUT} \cup NodePaths

\* the directories mkdir(parents=True) makes sure exist for a file under them
ParentDirs(path) ==
    IF path = DMOUT THEN {"out"}
    ELSE IF path \in {FOODS, STATS} THEN {"registry", "registry/generated"}
    ELSE {"registry", "registry/nodes"}

\* Path.mkdir(parents=True, exist_ok=True) on the parent of `path`
mkdir_parent(f, path) == [f EXCEPT !.dirs = @ \cup ParentDirs(path)]

write_json_append(f, path, obj) ==
    [dirs |-> f.dirs \cup ParentDirs(path),
     files |-> [f.files EXCEPT ![path] = FileOf(f.files[path].data \o dumps(obj))]]

\* write_json as one run sees it: the parent exists, the target holds the new text
write_json(f, path, obj) ==
    [dirs |-> f.dirs \cup ParentDirs(path),
     files |-> [f.files EXCEPT ![path] = FileOf(dumps(obj))]]

\* a registry node as it lies on disk
NodeDoc(item_id, buffs, status) ==
    FileOf(dumps(<<KV(K_id, item_id), KV(K_assigned_buffs, buffs), KV(K_status, status)>>))

NoFiles == [p \in Paths |-> Absent]

\* The registries a run can find: none yet, or one that holds nodes.
RegistryPool ==
    {[dirs |-> {}, files |-> NoFiles],
     [dirs |-> {"registry", "registry/nodes", "registry/generated"},
      files |-> [NoFiles EXCEPT ![NodeFile(a_b)] = NodeDoc(a_b, <<regen>>, active),
                                ![NodeFile(a_o)] = NodeDoc(a_o, <<regen>>, active)]],
     [dirs |-> {"registry", "registry/nodes", "registry/generated"},
      files |-> [NoFiles EXCEPT ![NodeFile(c_d)] = NodeDoc(c_d, <<>>, active),
                                ![NodeFile(a_o)] = NodeDoc(a_o, <<>>, disabled)]]}

----------------------------------------------------------------------------
(* Edible masterlist *)

junk == <<"j", "u", "n", "k">>

\* The files --edibles can name; 0 stands for a path that does not exist.
EdiblePool == <<
    \* 1  []
    Lst(<<>>),
    \* 2  {"items": "a:b"}
    Obj(<<KV("items", Str(a_b))>>),
    \* 3  {"items": ["a:b", "junk", 5]}
    Obj(<<KV("items", Lst(<<Str(a_b), Str(junk), Num(5)>>))>>),
    \* 4  {"items": ["c:d", "a:w"], "version": 1}
    Obj(<<KV("items", Lst(<<Str(c_d), Str(a_w)>>)), KV("version", Num(1))>>)
>>

EdibleFiles == 0..Len(EdiblePool)

\* load_edible_items raises ValueError
EdiblesMalformed(obj) == obj.t # "dict" \/ Get(obj, "items").t # "list"

\* the set load_edible_items returns
load_edible_items(obj) ==
    LET items == Get(obj, "items").v
    IN  {items[i].v : i \in {n \in 1..Len(items) : items[n].t = "str" /\ Contains(items[n].v, ":")}}

----------------------------------------------------------------------------
(* main: state between runs *)

\* the recipe documents the inputs of a run can hold
RunDocs == {1, 3, 5}

\* the most recipe documents under the inputs of one run
MaxRunDocs == 2

\* what the inputs of a run can hold; none when an input path does not exist
DocSets == {D \in SUBSET RunDocs : Cardinality(D) <= MaxRunDocs}

NoArgs == [dry_run |-> FALSE, verbose |-> FALSE, direct_map_out |-> NoPath]

NoInputs == [docs |-> {}, edibles |-> 0, found |-> FALSE]

MainIdle ==
    /\ fs \in RegistryPool
    /\ start = fs
    /\ pc = "idle"
    /\ rc = 0
    /\ args = NoArgs
    /\ world = NoInputs
    /\ main_direct_map = <<>>
    /\ edible_items = {}
    /\ repeat = FALSE

BuildIdle ==
    /\ stream = <<>>
    /\ direct_map = <<>>
    /\ bpc = "loop"
    /\ built = <<>>

----------------------------------------------------------------------------
(* build_direct_map, one loop iteration per step *)

InitBuild ==
    /\ BuildIdle
    /\ WriteIdle
    /\ CallIdle
    /\ fs = [dirs |-> {}, files |-> NoFiles]
    /\ start = fs
    /\ pc = "idle"
    /\ rc = 0
    /\ args = NoArgs
    /\ world = NoInputs
    /\ main_direct_map = <<>>
    /\ edible_items = {}
    /\ repeat = FALSE

\* `if not outputs: continue`
BuildSkipNoOutputs(d) ==
    /\ bpc = "loop" /\ Len(stream) < MaxDocs
    /\ extract_outputs(DocPool[d]) = {}
    /\ stream' = Append(stream, d)
    /\ UNCHANGED <<direct_map, bpc, built>>
    /\ UNCHANGED <<mainVars, writeVars, callVars>>

\* `if not tokens: continue`
BuildSkipNoTokens(d) ==
    /\ bpc = "loop" /\ Len(stream) < MaxDocs
    /\ extract_outputs(DocPool[d]) # {}
    /\ extract_direct_ingredient_tokens(DocPool[d]) = <<>>
    /\ stream' = Append(stream, d)
    /\ UNCHANGED <<direct_map, bpc, built>>
    /\ UNCHANGED <<mainVars, writeVars, callVars>>

\* canonicalize the tokens and merge them under every output
BuildMerge(d) ==
    /\ bpc = "loop" /\ Len(stream) < MaxDocs
    /\ extract_outputs(DocPool[d]) # {}
    /\ extract_direct_ingredient_tokens(DocPool[d]) # <<>>
    /\ \E outs \in Perms(extract_outputs(DocPool[d])) :
           direct_map' = merge_direct_map(direct_map, outs,
                             CanonicalizeAll(extract_direct_ingredient_tokens(DocPool[d])))
    /\ stream' = Append(stream, d)
    /\ UNCHANGED <<bpc, built>>
    /\ UNCHANGED <<mainVars, writeVars, callVars>>

\* `return finalize_direct_map(direct_map)`
BuildReturn ==
    /\ bpc = "loop"
    /\ built' = finalize_direct_map(direct_map)
    /\ bpc' = "returned"
    /\ UNCHANGED <<stream, direct_map>>
    /\ UNCHANGED <<mainVars, writeVars, callVars>>

NextBuild ==
    \/ \E d \in Docs : BuildSkipNoOutputs(d)
    \/ \E d \in Docs : BuildSkipNoTokens(d)
    \/ \E d \in Docs : BuildMerge(d)
    \/ BuildReturn

SpecBuild == InitBuild /\ [][NextBuild]_vars

----------------------------------------------------------------------------
(* main, one pipeline stage per step; runs follow one another *)

Init == MainIdle /\ BuildIdle /\ WriteIdle /\ CallIdle

\* A run starts: parse_args and the resolution of the paths.  No run is in progress
\* and nothing of an earlier run is left but the filesystem.
StartRun(dry, verbose, out, docs, edibles, found) ==
    /\ pc = "idle"
    /\ args' = [dry_run |-> dry, verbose |-> verbose, direct_map_out |-> out]
    /\ world' = [docs |-> docs, edibles |-> edibles, found |-> found]
    /\ repeat' = FALSE
    /\ start' = fs
    /\ pc' = "check_paths"
    /\ UNCHANGED <<fs, rc, main_direct_map, edible_items>>
    /\ UNCHANGED <<buildVars, writeVars, callVars>>

\* The run that just completed is started again: same command line, same documents,
\* same edibles, and the registry as that run left it.
RepeatRun ==
    /\ pc = "done"
    /\ ~args.dry_run
    /\ repeat' = TRUE
    /\ start' = fs
    /\ pc' = "check_paths"
    /\ rc' = 0
    /\ main_direct_map' = <<>>
    /\ edible_items' = {}
    /\ UNCHANGED <<fs, args, world>>
    /\ UNCHANGED <<buildVars, writeVars, callVars>>

\* The process is gone; the filesystem stays.
ProcessExit ==
    /\ pc \in {"done", "exited", "raised"}
    /\ pc' = "idle"
    /\ rc' = 0
    /\ args' = NoArgs
    /\ world' = NoInputs
    /\ main_direct_map' = <<>>
    /\ edible_items' = {}
    /\ repeat' = FALSE
    /\ start' = fs
    /\ UNCHANGED fs
    /\ UNCHANGED <<buildVars, writeVars, callVars>>

\* `if not args.edibles.exists(): return 2`
ExitEdiblesNotFound ==
    /\ pc = "check_paths"
    /\ world.edibles = 0
    /\ pc' = "exited"
    /\ rc' = 2
    /\ UNCHANGED <<fs, start, args, world, main_direct_map, edible_items, repeat>>
    /\ UNCHANGED <<buildVars, writeVars, callVars>>

\* `if not p.exists(): return 2`
ExitInputNotFound ==
    /\ pc = "check_paths"
    /\ world.edibles # 0
    /\ ~world.found
    /\ pc' = "exited"
    /\ rc' = 2
    /\ UNCHANGED <<fs, start, args, world, main_direct_map, edible_items, repeat>>
    /\ UNCHANGED <<buildVars, writeVars, callVars>>

\* the registry layout: nodes/ and generated/ are made unless --dry-run
MakeRegistryDirs ==
    /\ pc = "check_paths"
    /\ world.edibles # 0
    /\ world.found
    /\ fs' = IF args.dry_run THEN fs
             ELSE [fs EXCEPT !.dirs = @ \cup {"registry", "registry/nodes", "registry/generated"}]
    /\ pc' = "build"
    /\ UNCHANGED <<start, rc, args, world, main_direct_map, edible_items, repeat>>
    /\ UNCHANGED <<buildVars, writeVars, callVars>>

\* stages 1 and 2: the recipes are streamed in the order the sources give them
BuildDirectMap ==
    /\ pc = "build"
    /\ \E q \in Perms(world.docs) : \E dm \in build_direct_map(q) : main_direct_map' = dm
    /\ pc' = "write_direct_map"
    /\ UNCHANGED <<fs, start, rc, args, world, edible_items, repeat>>
    /\ UNCHANGED <<buildVars, writeVars, callVars>>

\* the optional --direct-map-out artifact
WriteDirectMap ==
    /\ pc = "write_direct_map"
    /\ fs' = IF args.direct_map_out = NoPath \/ args.dry_run THEN fs
             ELSE write_json(mkdir_parent(fs, args.direct_map_out),
                             args.direct_map_out, main_direct_map)
    /\ pc' = "load_edibles"
    /\ UNCHANGED <<start, rc, args, world, main_direct_map, edible_items, repeat>>
    /\ UNCHANGED <<buildVars, writeVars, callVars>>

\* stage 3: load_edible_items returns
LoadEdibles ==
    /\ pc = "load_edibles"
    /\ ~EdiblesMalformed(EdiblePool[world.edibles])
    /\ edible_items' = load_edible_items(EdiblePool[world.edibles])
    /\ pc' = "sync"
    /\ UNCHANGED <<fs, start, rc, args, world, main_direct_map, repeat>>
    /\ UNCHANGED <<buildVars, writeVars, callVars>>

\* stage 3: load_edible_items raises ValueError, which nothing catches
LoadEdiblesRaises ==
    /\ pc = "load_edibles"
    /\ EdiblesMalformed(EdiblePool[world.edibles])
    /\ pc' = "raised"
    /\ rc' = 1
    /\ UNCHANGED <<fs, start, args, world, main_direct_map, edible_items, repeat>>
    /\ UNCHANGED <<buildVars, writeVars, callVars>>

SyncRegistry_resetting_buffs ==
    /\ pc = "sync"
    /\ fs' = IF args.dry_run THEN fs
             ELSE [fs EXCEPT !.files =
                      [p \in Paths |->
                          IF p \in NodePaths /\ fs.files[p].exists
                          THEN FileOf([i \in 1..Len(fs.files[p].data) |->
                                          IF fs.files[p].data[i].k = K_assigned_buffs
                                          THEN KV(K_assigned_buffs, <<>>)
                                          ELSE fs.files[p].data[i]])
                          ELSE fs.files[p]]]
    /\ pc' = "generate"
    /\ UNCHANGED <<start, rc, args, world, main_direct_map, edible_items, repeat>>
    /\ UNCHANGED <<buildVars, writeVars, callVars>>

\* stage 4: the call of sync_registry_nodes is commented out; the stage is skipped
SyncRegistry ==
    /\ pc = "sync"
    /\ pc' = "generate"
    /\ UNCHANGED <<fs, start, rc, args, world, main_direct_map, edible_items, repeat>>
    /\ UNCHANGED <<buildVars, writeVars, callVars>>

\* {"food_count": ..., "food_outputs": sorted(...)}
FoodListPayload(food_outputs) ==
    <<KV(K_food_count, Cardinality(food_outputs)),
      KV(K_food_outputs, sorted(food_outputs))>>

\* gen_stats
GenStats(outputs_set, edible, edible_outputs) ==
    <<KV(K_direct_map_output_count, Cardinality(outputs_set)),
      KV(K_edible_item_count, Cardinality(edible)),
      KV(K_edible_output_count, Cardinality(edible_outputs))>>

\* write_generated_food_list, then write_generated_stats
WriteGeneratedFiles(f, dm, edible) ==
    LET outputs_set == Keys(dm)
        edible_outputs == outputs_set \cap edible
    IN  write_json(write_json(f, FOODS, FoodListPayload(edible_outputs)),
                   STATS, GenStats(outputs_set, edible, edible_outputs))

WriteGenerated_ignoring_dry_run ==
    /\ pc = "generate"
    /\ fs' = WriteGeneratedFiles(fs, main_direct_map, edible_items)
    /\ pc' = "done"
    /\ rc' = 0
    /\ UNCHANGED <<start, args, world, main_direct_map, edible_items, repeat>>
    /\ UNCHANGED <<buildVars, writeVars, callVars>>

\* stage 5: foods.json and stats.json are written unless --dry-run; `return 0`
WriteGenerated ==
    /\ pc = "generate"
    /\ fs' = IF args.dry_run THEN fs
             ELSE WriteGeneratedFiles(fs, main_direct_map, edible_items)
    /\ pc' = "done"
    /\ rc' = 0
    /\ UNCHANGED <<start, args, world, main_direct_map, edible_items, repeat>>
    /\ UNCHANGED <<buildVars, writeVars, callVars>>

Next ==
    \/ \E dry, verbose, found \in BOOLEAN : \E out \in {NoPath, DMOUT} :
           \E docs \in (IF found THEN DocSets ELSE {{}}) :
               \E edibles \in EdibleFiles :
                   StartRun(dry, verbose, out, docs, edibles, found)
    \/ RepeatRun
    \/ ProcessExit
    \/ ExitEdiblesNotFound
    \/ ExitInputNotFound
    \/ MakeRegistryDirs
    \/ BuildDirectMap
    \/ WriteDirectMap
    \/ LoadEdibles
    \/ LoadEdiblesRaises
    \/ SyncRegistry
    \/ WriteGenerated

Spec == Init /\ [][Next]_vars

----------------------------------------------------------------------------
(* write_json on one target path, system call by system call, by several processes *)

InitWrite ==
    /\ WriteIdle
    /\ BuildIdle
    /\ CallIdle
    /\ fs = [dirs |-> {}, files |-> NoFiles]
    /\ start = fs
    /\ pc = "idle"
    /\ rc = 0
    /\ args = NoArgs
    /\ world = NoInputs
    /\ main_direct_map = <<>>
    /\ edible_items = {}
    /\ repeat = FALSE

\* an inode number no directory entry and no open file refers to
FreeInode ==
    CHOOSE n \in Inodes :
        /\ n \notin {wj_names.target, wj_names.tmp}
        /\ \A w \in Writers : wj_proc[w].fd # n

\* `tmp.open("w")`: the file at <path>.tmp is created, or truncated when it is there
WJOpenTmp(w) ==
    /\ wj_proc[w].pc = "start"
    /\ LET n == IF wj_names.tmp # 0 THEN wj_names.tmp ELSE FreeInode
       IN  /\ wj_names' = [wj_names EXCEPT !.tmp = n]
           /\ wj_inode' = [wj_inode EXCEPT ![n] = <<>>]
           /\ wj_proc' = [wj_proc EXCEPT ![w] = [pc |-> "dump", fd |-> n, pos |-> 0]]
    /\ UNCHANGED <<buildVars, mainVars, callVars>>

\* the bytes a write at offset `pos` leaves in a file: a gap reads as zeros
WriteAt(content, pos, chunk) ==
    [i \in 1..(IF Len(content) > pos + 1 THEN Len(content) ELSE pos + 1) |->
        IF i = pos + 1 THEN chunk
        ELSE IF i <= Len(content) THEN content[i]
        ELSE [by |-> 0, part |-> 0]]

\* json.dump and f.write("\n"): the next piece of the text reaches the open file
WJWrite(w) ==
    /\ wj_proc[w].pc = "dump"
    /\ wj_proc[w].pos < Chunks
    /\ wj_inode' = [wj_inode EXCEPT ![wj_proc[w].fd] =
                       WriteAt(@, wj_proc[w].pos, Text(w)[wj_proc[w].pos + 1])]
    /\ wj_proc' = [wj_proc EXCEPT ![w].pos = @ + 1]
    /\ UNCHANGED wj_names
    /\ UNCHANGED <<buildVars, mainVars, callVars>>

\* the end of the `with` block: the file is closed
WJClose(w) ==
    /\ wj_proc[w].pc = "dump"
    /\ wj_proc[w].pos = Chunks
    /\ wj_proc' = [wj_proc EXCEPT ![w] = [pc |-> "replace", fd |-> 0, pos |-> 0]]
    /\ UNCHANGED <<wj_names, wj_inode>>
    /\ UNCHANGED <<buildVars, mainVars, callVars>>

\* `tmp.replace(path)`: the entry <path>.tmp becomes the entry <path>, atomically
WJReplace(w) ==
    /\ wj_proc[w].pc = "replace"
    /\ wj_names.tmp # 0
    /\ wj_names' = [target |-> wj_names.tmp, tmp |-> 0]
    /\ wj_proc' = [wj_proc EXCEPT ![w].pc = "done"]
    /\ UNCHANGED wj_inode
    /\ UNCHANGED <<buildVars, mainVars, callVars>>

\* `tmp.replace(path)` when another process has renamed the file: FileNotFoundError
WJReplaceFails(w) ==
    /\ wj_proc[w].pc = "replace"
    /\ wj_names.tmp = 0
    /\ wj_proc' = [wj_proc EXCEPT ![w].pc = "raised"]
    /\ UNCHANGED <<wj_names, wj_inode>>
    /\ UNCHANGED <<buildVars, mainVars, callVars>>

\* the process is killed: its open file is closed, nothing more is written
WJCrash(w) ==
    /\ wj_proc[w].pc \in {"start", "dump", "replace"}
    /\ wj_proc' = [wj_proc EXCEPT ![w] = [pc |-> "crashed", fd |-> 0, pos |-> 0]]
    /\ UNCHANGED <<wj_names, wj_inode>>
    /\ UNCHANGED <<buildVars, mainVars, callVars>>

NextWrite ==
    \/ \E w \in Writers : WJOpenTmp(w)
    \/ \E w \in Writers : WJWrite(w)
    \/ \E w \in Writers : WJClose(w)
    \/ \E w \in Writers : WJReplace(w)
    \/ \E w \in Writers : WJReplaceFails(w)
    \/ \E w \in Writers : WJCrash(w)

SpecWrite == InitWrite /\ [][NextWrite]_vars

----------------------------------------------------------------------------
(* Recipe paths *)

EndsWith(s, p) == Len(s) >= Len(p) /\ SubSeq(s, Len(s) - Len(p) + 1, Len(s)) = p

\* `sub in s`
HasInfix(s, sub) ==
    \E i \in 1..(Len(s) - Len(sub) + 1) : SubSeq(s, i, i + Len(sub) - 1) = sub

\* str.replace(old, new), old and new one character each
replace(s, old, new) == [i \in 1..Len(s) |-> IF s[i] = old THEN new ELSE s[i]]

dot_json == <<".", "j", "s", "o", "n">>
seg_data == <<"d", "a", "t", "a">>
seg_recipes == <<"r", "e", "c", "i", "p", "e", "s">>
seg_ns == <<"n", "s">>
a_json == <<"a">> \o dot_json
a_txt == <<"a", ".", "t", "x", "t">>

is_recipe_json_path(rel_path) ==
    LET rp == replace(rel_path, "\\", "/")
    IN  IF ~EndsWith(rp, dot_json) THEN FALSE
        ELSE IF ~HasInfix(<<"/">> \o rp, <<"/">> \o seg_data \o <<"/">>) THEN FALSE
        ELSE HasInfix(rp, <<"/">> \o seg_recipes \o <<"/">>)

RECURSIVE Join(_, _)
\* the path whose segments are segs, separated by sep
Join(segs, sep) ==
    IF segs = <<>> THEN <<>>
    ELSE IF Len(segs) = 1 THEN Head(segs)
    ELSE Head(segs) \o <<sep>> \o Join(Tail(segs), sep)

\* whether iter_recipe_json_from_folder(root) reads the file at root/<segs>: the file
\* is found by data_dir.rglob("*.json") and its relative path contains "/recipes/"
folder_reads(segs) ==
    LET rel == Join(segs, "/")
    IN  /\ Len(segs) >= 2
        /\ Head(segs) = seg_data
        /\ EndsWith(segs[Len(segs)], dot_json)
        /\ HasInfix(rel, <<"/">> \o seg_recipes \o <<"/">>)

\* the names a path segment takes
Segments == {seg_data, seg_recipes, seg_ns, a_json, a_txt}

\* the longest path, in segments
MaxSegments == 4

SegmentLists == UNION {[1..n -> Segments] : n \in 1..MaxSegments}

----------------------------------------------------------------------------
(* Raw tokens *)

\* the characters of a raw token after its prefix, if it has one
TokenChars == {" ", "#", ":", "a"}

\* the most characters after the prefix
MaxTokenLen == 3

TokenBodies == UNION {[1..n -> TokenChars] : n \in 0..MaxTokenLen}

TokenPrefixes ==
    {<<>>, <<"i", "t", "e", "m", ":">>, <<"t", "a", "g", ":">>,
     <<"f", "l", "u", "i", "d", ":">>}

\* the raw tokens canonicalize_token is called on
RawTokens ==
    {lead \o prefix \o body :
        lead \in {<<>>, <<" ">>}, prefix \in TokenPrefixes, body \in TokenBodies}

----------------------------------------------------------------------------
(* Recipes with one input field *)

\* the fields collect_from_fluid_obj is applied to
FluidFields == {"input", "inputs", "fluid", "fluids", "fluidIngredient", "fluid_ingredient"}

\* the values found under such a field
FluidValuePool == <<
    \* 1  "a:w"
    Str(a_w),
    \* 2  {"fluid": "a:w"}
    Obj(<<KV("fluid", Str(a_w))>>),
    \* 3  {"fluids": ["a:w", "a:x"]}
    Obj(<<KV("fluids", Lst(<<Str(a_w), Str(a_x)>>))>>),
    \* 4  ["a:w", {"fluid": "a:x"}]
    Lst(<<Str(a_w), Obj(<<KV("fluid", Str(a_x))>>)>>),
    \* 5  [{"fluid": "a:w"}]
    Lst(<<Obj(<<KV("fluid", Str(a_w))>>)>>),
    \* 6  "#m:d"
    Str(<<"#">> \o m_d),
    \* 7  {"item": "a:x"}
    Obj(<<KV("item", Str(a_x))>>),
    \* 8  {"fluidTag": "m:d"}
    Obj(<<KV("fluidTag", Str(m_d))>>),
    \* 9  [{"fluids": ["a:x"]}]
    Lst(<<Obj(<<KV("fluids", Lst(<<Str(a_x)>>))>>)>>),
    \* 10  null
    Null
>>

\* {"result": "c:d", <field>: <value>}
FluidRecipe(field, value) == Obj(<<KV("result", Str(c_d)), KV(field, value)>>)

----------------------------------------------------------------------------
(* Recipes with output fields only *)

\* the values found under result, results, output and outputs
ResultValuePool == <<
    \* 1  "a:b"
    Str(a_b),
    \* 2  "#m:t"
    Str(<<"#">> \o m_t),
    \* 3  {"item": "c:d", "count": 1}
    Obj(<<KV("item", Str(c_d)), KV("count", Num(1))>>),
    \* 4  [{"id": "a:w"}, {"name": "a:x"}]
    Lst(<<Obj(<<KV("id", Str(a_w))>>), Obj(<<KV("name", Str(a_x))>>)>>),
    \* 5  null
    Null,
    \* 6  {"items": [{"item": "a:b"}, "c:d"]}
    Obj(<<KV("items", Lst(<<Obj(<<KV("item", Str(a_b))>>), Str(c_d)>>))>>),
    \* 7  {"item": "a:b", "ingredient": {"item": "a:w"}}
    Obj(<<KV("item", Str(a_b)), KV("ingredient", Obj(<<KV("item", Str(a_w))>>))>>),
    \* 8  {"count": 1, "by": ["a:x"]}
    Obj(<<KV("count", Num(1)), KV("by", Lst(<<Str(a_x)>>))>>)
>>

\* a field is absent (0) or holds a value of the pool
FieldChoices == 0..Len(ResultValuePool)

OutputFields == <<"result", "results", "output", "outputs">>

RECURSIVE FieldPairs(_, _)
\* the pairs of the recipe that `choice` describes, a field absent when its choice is 0
FieldPairs(choice, keys) ==
    IF keys = <<>> THEN <<>>
    ELSE (IF choice[Head(keys)] = 0 THEN <<>>
          ELSE <<KV(Head(keys), ResultValuePool[choice[Head(keys)]])>>)
         \o FieldPairs(choice, Tail(keys))

OutputRecipe(choice) == Obj(FieldPairs(choice, OutputFields))

----------------------------------------------------------------------------
(* One function called on its own: the argument is chosen, the call returns *)

InitCall ==
    /\ BuildIdle
    /\ WriteIdle
    /\ fs = [dirs |-> {}, files |-> NoFiles]
    /\ start = fs
    /\ pc = "idle"
    /\ rc = 0
    /\ args = NoArgs
    /\ world = NoInputs
    /\ main_direct_map = <<>>
    /\ edible_items = {}
    /\ repeat = FALSE
    /\ ret = <<>>
    /\ returned = FALSE
    /\ \/ /\ fn = "is_recipe_json_path"
          /\ arg \in [segs : SegmentLists, sep : {"/", "\\"}]
       \/ /\ fn = "iter_recipe_json_from_folder"
          /\ arg \in [segs : SegmentLists, sep : {"/"}]
       \/ /\ fn = "canonicalize_token"
          /\ arg \in RawTokens
       \/ /\ fn = "extract_direct_ingredient_tokens"
          /\ arg \in [field : FluidFields, value : 1..Len(FluidValuePool)]
       \/ /\ fn = "extract_outputs"
          /\ arg \in [result : FieldChoices, results : FieldChoices,
                      output : FieldChoices, outputs : FieldChoices]

\* is_recipe_json_path(name) on the name of an archive entry
CallIsRecipeJsonPath ==
    /\ fn = "is_recipe_json_path"
    /\ ~returned
    /\ ret' = is_recipe_json_path(Join(arg.segs, arg.sep))
    /\ returned' = TRUE
    /\ UNCHANGED <<fn, arg, buildVars, mainVars, writeVars>>

\* iter_recipe_json_from_folder(root) on a tree that holds one file, a JSON object,
\* at root/<arg.segs>: whether the file is yielded
CallIterRecipeJsonFromFolder ==
    /\ fn = "iter_recipe_json_from_folder"
    /\ ~returned
    /\ ret' = folder_reads(arg.segs)
    /\ returned' = TRUE
    /\ UNCHANGED <<fn, arg, buildVars, mainVars, writeVars>>

CallCanonicalizeToken ==
    /\ fn = "canonicalize_token"
    /\ ~returned
    /\ ret' = canonicalize_token(arg)
    /\ returned' = TRUE
    /\ UNCHANGED <<fn, arg, buildVars, mainVars, writeVars>>

CallExtractDirectIngredientTokens ==
    /\ fn = "extract_direct_ingredient_tokens"
    /\ ~returned
    /\ ret' = extract_direct_ingredient_tokens(
                  FluidRecipe(arg.field, FluidValuePool[arg.value]))
    /\ returned' = TRUE
    /\ UNCHANGED <<fn, arg, buildVars, mainVars, writeVars>>

CallExtractOutputs ==
    /\ fn = "extract_outputs"
    /\ ~returned
    /\ ret' = extract_outputs(OutputRecipe(arg))
    /\ returned' = TRUE
    /\ UNCHANGED <<fn, arg, buildVars, mainVars, writeVars>>

NextCall ==
    \/ CallIsRecipeJsonPath
    \/ CallIterRecipeJsonFromFolder
    \/ CallCanonicalizeToken
    \/ CallExtractDirectIngredientTokens
    \/ CallExtractOutputs

SpecCall == InitCall /\ [][NextCall]_vars

----------------------------------------------------------------------------
(* Properties of build_direct_map (SpecBuild) *)

OutputsOf(d) == extract_outputs(DocPool[d])

TokensOf(d) == CanonicalizeAll(extract_direct_ingredient_tokens(DocPool[d]))

\* every order in which the recipes of `q` can be streamed
Reorderings(q) ==
    {[i \in 1..Len(q) |-> q[f[i]]] : f \in Perms(1..Len(q))}

\* C6: for a fixed collection of recipe documents, build_direct_map returns the same
\* finalized map (same keys, same token sequence per key) in whatever order the
\* documents are streamed.
C6_OrderIndependent ==
    bpc = "returned" =>
        \A q \in Reorderings(stream) : \A r \in build_direct_map(q) : DictEq(r, built)

\* two different recipes of the stream contribute different tokens to a common output
C6_Witness ==
    /\ bpc = "returned"
    /\ \E i, j \in 1..Len(stream) :
           /\ i < j
           /\ OutputsOf(stream[i]) \cap OutputsOf(stream[j]) # {}
           /\ TokensOf(stream[i]) # <<>> /\ TokensOf(stream[j]) # <<>>
           /\ Range(TokensOf(stream[i])) # Range(TokensOf(stream[j]))

\* C8: every key of the returned map has a non-empty, lexicographically sorted,
\* duplicate-free sequence of tokens; an output with no tokens is never a key.
C8_SortedNonEmpty ==
    bpc = "returned" =>
        \A i \in 1..Len(built) :
            /\ built[i].v # <<>>
            /\ IsSortedSeq(built[i].v)
            /\ NoDuplicates(built[i].v)

\* a recipe with outputs but no tokens was streamed and left no key, next to an entry
\* of several tokens
C8_Witness ==
    /\ bpc = "returned"
    /\ \E i \in 1..Len(stream) :
           /\ OutputsOf(stream[i]) # {}
           /\ TokensOf(stream[i]) = <<>>
           /\ OutputsOf(stream[i]) \cap Keys(built) = {}
    /\ \E i \in 1..Len(built) : Len(built[i].v) >= 2

\* C9: when a recipe with outputs O and tokens T is merged, every output of O then holds
\* every canonicalized token of T, and every token accumulated before is still there.
C9_CrossProductUnion ==
    [][stream' # stream =>
          LET d == stream'[Len(stream')]
          IN  /\ \A i \in 1..Len(direct_map) :
                     /\ HasKey(direct_map', direct_map[i].k)
                     /\ direct_map[i].v \subseteq Lookup(direct_map', direct_map[i].k)
              /\ (OutputsOf(d) # {} /\ TokensOf(d) # <<>>) =>
                     \A o \in OutputsOf(d) :
                         /\ HasKey(direct_map', o)
                         /\ Range(TokensOf(d)) \subseteq Lookup(direct_map', o)]_vars

\* a recipe with two outputs was merged onto an entry that held other tokens before
C9_Witness ==
    /\ bpc = "loop"
    /\ Len(stream) >= 2
    /\ LET d == stream[Len(stream)]
       IN  /\ Cardinality(OutputsOf(d)) >= 2
           /\ TokensOf(d) # <<>>
           /\ \A o \in OutputsOf(d) :
                  HasKey(direct_map, o) /\ Range(TokensOf(d)) \subseteq Lookup(direct_map, o)
           /\ \E o \in OutputsOf(d) : ~(Lookup(direct_map, o) \subseteq Range(TokensOf(d)))

----------------------------------------------------------------------------
(* Properties of main (Spec) *)

\* the value of a field of the JSON document in a file
Field(file, key) == Lookup(file.data, key)

HasField(file, key) == file.exists /\ HasKey(file.data, key)

RunCompleted == pc = "done" /\ ~args.dry_run

\* C1: when the edible masterlist is malformed the run fails before any persistence
\* side effect: no directory has been created and no file written when it fails.
C1_AbortsBeforeSideEffects ==
    pc = "raised" => fs = start

\* C2: with --dry-run, whatever the other options and the inputs, a run creates no
\* directory and writes no file: the filesystem stays as it was when the run started.
C2_DryRunWritesNothing ==
    (pc # "idle" /\ args.dry_run) => fs = start

\* a verbose dry run with --direct-map-out completed on a registry that does not exist
\* yet, with a food list to report
C2_Witness ==
    /\ pc = "done"
    /\ args.dry_run /\ args.verbose /\ args.direct_map_out = DMOUT
    /\ Keys(main_direct_map) \cap edible_items # {}
    /\ fs.dirs = {}

\* C3: a registry node that exists with a non-empty assigned_buffs keeps that value
\* through every step of every run, whatever the direct map and the edible set.
C3_ManualFieldPreserved ==
    [][\A p \in NodePaths :
           (fs.files[p].exists /\ Field(fs.files[p], K_assigned_buffs) # <<>>) =>
               /\ fs'.files[p].exists
               /\ Field(fs'.files[p], K_assigned_buffs) = Field(fs.files[p], K_assigned_buffs)
      ]_vars

\* a run completed after an earlier one, on a direct map that has the key of a node
\* with assigned_buffs, and replaced the statistics the earlier run had written
C3_Witness ==
    /\ RunCompleted
    /\ start.files[STATS].exists
    /\ fs.files[STATS] # start.files[STATS]
    /\ \E id \in Keys(main_direct_map) :
           /\ fs.files[NodeFile(id)].exists
           /\ Field(fs.files[NodeFile(id)], K_assigned_buffs) = <<regen>>

\* "created"
K_created == <<"c", "r", "e", "a", "t", "e", "d">>

\* C4: after a run without --dry-run, every key of the direct map that had no node when
\* the run started has a node with its id, empty assigned_buffs, status active and a
\* structural field holding its direct ingredients, and the statistics count them.
C4_AbsentExpectedCreated ==
    LET new == {id \in Keys(main_direct_map) : ~start.files[NodeFile(id)].exists}
    IN  (RunCompleted /\ new # {}) =>
            /\ \A id \in new :
                   LET node == fs.files[NodeFile(id)]
                   IN  /\ node.exists
                       /\ Field(node, K_id) = id
                       /\ Field(node, K_assigned_buffs) = <<>>
                       /\ Field(node, K_status) = active
                       /\ \E i \in 1..Len(node.data) :
                              /\ node.data[i].k \notin {K_id, K_assigned_buffs, K_status}
                              /\ node.data[i].v = Lookup(main_direct_map, id)
            /\ HasField(fs.files[STATS], K_created)
            /\ Field(fs.files[STATS], K_created) = Cardinality(new)

\* the item ids the tokens of a direct map refer to
ReferencedItems(dm) ==
    {SubSeq(t, 6, Len(t)) :
        t \in {x \in UNION {Range(dm[i].v) : i \in 1..Len(dm)} :
                   StartsWith(x, <<"i", "t", "e", "m", ":">>)}}

\* C5: a node file present before a run whose id the run does not expect (it is no key
\* of the direct map and no ingredient in it) is still there after the run, disabled.
C5_UnexpectedDisabled ==
    RunCompleted =>
        \A id \in NodeIds :
            (/\ start.files[NodeFile(id)].exists
             /\ id \notin Keys(main_direct_map) \cup ReferencedItems(main_direct_map)) =>
                /\ fs.files[NodeFile(id)].exists
                /\ Field(fs.files[NodeFile(id)], K_status) = disabled

\* C7: a run repeated on unchanged documents, edibles, options and registry leaves
\* every artifact (direct map, foods.json, stats.json, node files) as the run before it
\* left them.
C7_Idempotent ==
    (pc = "done" /\ repeat) => fs = start

\* a repeated run completed that wrote a direct map of two outputs and a food list
C7_Witness ==
    /\ pc = "done" /\ repeat
    /\ args.direct_map_out = DMOUT
    /\ Len(main_direct_map) = 2
    /\ fs.files[DMOUT].exists
    /\ Field(fs.files[FOODS], K_food_count) > 0

----------------------------------------------------------------------------
(* Properties of write_json (SpecWrite) *)

\* what a reader of the target path reads
TargetText == wj_inode[wj_names.target]

\* C10: at every step of a write_json, crashes and concurrent writers of the same
\* target included, a reader of the target sees the complete previous text or the
\* complete text of one writer, never a partial or interleaved one.
C10_AllOrNothing ==
    /\ wj_names.target # 0
    /\ TargetText \in {Text(0)} \cup {Text(w) : w \in Writers}

----------------------------------------------------------------------------
(* Properties of the functions called on their own (SpecCall) *)

\* data/<namespace>/recipes/**/*.json: a `data` segment, one namespace segment, a
\* `recipes` segment, then a .json file below it
MatchesConvention(segs) ==
    /\ EndsWith(segs[Len(segs)], dot_json)
    /\ \E i \in 1..(Len(segs) - 3) :
           /\ segs[i] = seg_data
           /\ segs[i + 2] = seg_recipes

\* C11: a path is treated as a recipe document, by is_recipe_json_path and by
\* iter_recipe_json_from_folder, exactly when it matches
\* data/<namespace>/recipes/**/*.json.
C11_RecipePathConvention ==
    (returned /\ fn \in {"is_recipe_json_path", "iter_recipe_json_from_folder"})
        => (ret <=> MatchesConvention(arg.segs))

Prefixed(t) ==
    \/ StartsWith(t, <<"i", "t", "e", "m", ":">>)
    \/ StartsWith(t, <<"t", "a", "g", ":">>)
    \/ StartsWith(t, <<"f", "l", "u", "i", "d", ":">>)

\* the item form a:b and the tag form #a:b
ItemForm(t) == Contains(t, ":") /\ ~StartsWith(t, <<"#">>)
TagForm(t) == StartsWith(t, <<"#">>) /\ Contains(Tail(t), ":")

\* what the rules make of t: a prefixed t and a t of no recognized shape stay as they
\* are, a:b becomes item:a:b, #a:b becomes tag:a:b
RuleResult(t) ==
    IF Prefixed(t) \/ (~ItemForm(t) /\ ~TagForm(t)) THEN t
    ELSE IF ItemForm(t) THEN <<"i", "t", "e", "m", ":">> \o t
    ELSE <<"t", "a", "g", ":">> \o Tail(t)

Spaces(n) == [i \in 1..n |-> " "]

\* C12 (as stated): canonicalize_token returns its input character for character when
\* the input is prefixed with item:, tag: or fluid: or has none of the recognized
\* shapes; otherwise a:b yields item:a:b and #a:b yields tag:a:b.
C12_PassThroughUnchanged ==
    (returned /\ fn = "canonicalize_token") => ret = RuleResult(arg)

\* C12 (amended): the input is  spaces, t, spaces  with no space at either end of t,
\* and canonicalize_token returns what the rules make of t; so an input without
\* leading or trailing whitespace that is prefixed or of no recognized shape is
\* returned character for character.
C12_RulesAfterStrip ==
    (returned /\ fn = "canonicalize_token") =>
        \E i, j \in 0..Len(arg) :
            /\ i + j <= Len(arg)
            /\ SubSeq(arg, 1, i) = Spaces(i)
            /\ SubSeq(arg, Len(arg) - j + 1, Len(arg)) = Spaces(j)
            /\ LET t == SubSeq(arg, i + 1, Len(arg) - j)
               IN  /\ t # <<>> => (t[1] # " " /\ t[Len(t)] # " ")
                   /\ ret = RuleResult(t)

\* a prefixed token with whitespace around it came back without the whitespace
C12_Witness ==
    /\ returned
    /\ fn = "canonicalize_token"
    /\ arg = <<" ", "t", "a", "g", ":", "a", " ">>
    /\ ret = <<"t", "a", "g", ":", "a">>

\* the identifiers of the model
Identifiers == {a_b, c_d, a_w, a_x, m_d, m_t}

\* the identifiers the value under `field` refers to as fluids: those the fluid
\* collector takes from it, the collector being applied to the elements of `inputs`
\* only when `inputs` is a list
FluidReferences(field, value) ==
    IF field = "inputs" /\ value.t # "list" THEN {}
    ELSE {id \in Identifiers : token_from_fluid_id(id) \in Range(collect_from_fluid_obj(value))}

\* C13: a value extracted as a fluid reference under input, inputs, fluid, fluids,
\* fluidIngredient or fluid_ingredient contributes the token fluid:<identifier> and
\* no token item:<identifier> for the same identifier.
C13_FluidNotItem ==
    (returned /\ fn = "extract_direct_ingredient_tokens") =>
        \A id \in FluidReferences(arg.field, FluidValuePool[arg.value]) :
            /\ token_from_fluid_id(id) \in Range(ret)
            /\ token_from_item_id(id) \notin Range(ret)

RECURSIVE DescriptorIds(_)
\* the item/id/name identifiers of the result descriptors in x: of x when it is an
\* object, of the objects carrying item/id/name among its values and in its lists, at
\* any depth; a string in a list is not a descriptor
DescriptorIds(x) ==
    IF x.t = "list"
    THEN UNION {IF LooksLikeResult(x.v[i]) THEN DescriptorIds(x.v[i]) ELSE {} :
                    i \in 1..Len(x.v)}
    ELSE IF x.t # "dict" THEN {}
    ELSE {Get(x, key).v : key \in {k \in {"item", "id", "name"} : is_item_id(Get(x, k))}}
         \cup UNION {IF LooksLikeResult(x.v[i].v) \/ x.v[i].v.t = "list"
                     THEN DescriptorIds(x.v[i].v) ELSE {} : i \in 1..Len(x.v)}

\* the identifiers a result value may give: itself, or those of its descriptors
AllowedOutputs(x) == (IF is_item_id(x) THEN {x.v} ELSE {}) \cup DescriptorIds(x)

\* the values the recipe described by `choice` holds under its output fields
PresentValues(choice) ==
    {ResultValuePool[choice[OutputFields[i]]] :
        i \in {n \in 1..Len(OutputFields) : choice[OutputFields[n]] # 0}}

\* C14: every identifier extract_outputs returns is a result value itself or the
\* item/id/name value of a result descriptor within it; a bare identifier string in a
\* list nested under an object key is never returned.
C14_OnlyDescriptors ==
    (returned /\ fn = "extract_outputs") =>
        ret \subseteq UNION {AllowedOutputs(x) : x \in PresentValues(arg)}

\* what a field yields: nothing when absent
FieldYield(choice, key) ==
    IF choice[key] = 0 THEN {} ELSE from_result_obj(ResultValuePool[choice[key]])

\* C15: when result and results yield an identifier the returned set is exactly their
\* union and nothing of output/outputs is in it; when they yield none the returned set
\* is the union of what output and outputs yield, possibly empty.
C15_SecondaryOnlyIfPrimaryEmpty ==
    (returned /\ fn = "extract_outputs") =>
        LET primary == FieldYield(arg, "result") \cup FieldYield(arg, "results")
            secondary == FieldYield(arg, "output") \cup FieldYield(arg, "outputs")
        IN  /\ primary # {} => ret = primary
            /\ primary = {} => ret = secondary

\* result yields "a:b", output holds {"item": "c:d", ...}, and only "a:b" came back
C15_Witness ==
    /\ returned
    /\ fn = "extract_outputs"
    /\ arg.result = 1
    /\ arg.output = 3
    /\ ret = {a_b}

====
